---- MODULE Spec2Model ----
(***************************************************************************)
(* Restriction geometry pipeline of YesFly: validateInput,                 *)
(* generateSearchArea, the FAA fetch, mergeFAAFeaturesByFacility,          *)
(* clipRestrictionsToSearchArea and calculateAllowedAreas, as one request  *)
(* through RestrictionService.getRestrictions and the controller.          *)
(*                                                                         *)
(* Geometry is modelled as coverage of a finite set of cells.  Cell c >= 1 *)
(* is the ring of ground at distance c from the request's centre, so the   *)
(* buffer of radius r covers the cells 1..r.  Cell 0 is the unit square    *)
(* [0,1]x[0,1] at the origin of the coordinate system.                     *)
(***************************************************************************)
EXTENDS Integers, Sequences, FiniteSets, TLC

\* JavaScript's undefined / an absent property
NoValue == "undefined"

\* Bounds of the model
MaxRadius == 2
MaxCell == 3
MaxRaw == 2

Cells == 0..MaxCell
UnitSquareCell == 0

\* Request centres: both bounds of each coordinate, and a value just past
\* each bound with the other coordinate in range.
Centers ==
  {[lat |-> -90, lng |-> -180], [lat |-> 90, lng |-> 180],
   [lat |-> -91, lng |-> -180], [lat |-> 91, lng |-> 180],
   [lat |-> -90, lng |-> -181], [lat |-> 90, lng |-> 181]}
\* Request radii in miles: a negative one, zero, the smallest and the largest.
Radii == {-1, 0, 1, MaxRadius}
Services == {"current", "legacy"}

----------------------------------------------------------------------------
(* GeoJSON values *)

FeatureCollection(fs) == [type |-> "FeatureCollection", features |-> fs]

Geometry(t, ps) == [type |-> t, parts |-> ps]

\* The set of cells a geometry covers; Point and LineString cover none.
Cover(g) == UNION {g.parts[i] : i \in DOMAIN g.parts}

IsPolygonal(g) == g.type \in {"Polygon", "MultiPolygon"}

IsInterval(S) == \A a \in S, b \in S : \A c \in a..b : c \in S

\* The geometry a boolean operation returns for a non-empty result:
\* a Polygon when the region is connected, a MultiPolygon otherwise.
RegionGeometry(S) ==
  Geometry(IF IsInterval(S) THEN "Polygon" ELSE "MultiPolygon", <<S>>)

\* A property bag with every property absent (maxAGL, a number, is absent
\* as -1, combinedFrom as 0, originalGridIds as the empty list).
EmptyProps ==
  [id |-> NoValue, facility |-> NoValue, gridId |-> NoValue,
   maxAGL |-> 0 - 1, name |-> NoValue, category |-> NoValue,
   type |-> NoValue, source |-> NoValue, notes |-> NoValue,
   authority |-> NoValue, confidenceLevel |-> NoValue,
   description |-> NoValue, combinedFrom |-> 0, originalGridIds |-> <<>>]

Feature(props, geom) == [type |-> "Feature", properties |-> props, geometry |-> geom]

\* What an array slot holds when the value put there was undefined.
UndefinedFeature ==
  [type |-> NoValue, properties |-> EmptyProps, geometry |-> Geometry(NoValue, <<>>)]

----------------------------------------------------------------------------
(* Turf operations *)

Ok(g) == [kind |-> "ok", geometry |-> g]
Null == [kind |-> "null", geometry |-> Geometry(NoValue, <<>>)]
Throw == [kind |-> "throw", geometry |-> Geometry(NoValue, <<>>)]

\* turf.buffer(point, radius, {units: 'miles'}): a polygon around the
\* point; no polygon (undefined) for a radius that is not positive.
buffer(lat, lng, radius) ==
  IF radius <= 0 THEN UndefinedFeature
  ELSE Feature(EmptyProps, Geometry("Polygon", <<{c \in Cells : 1 <= c /\ c <= radius}>>))

\* turf.intersect of two geometries: null when disjoint; throws on an
\* operand that is not a Polygon or MultiPolygon, or when the engine fails.
intersect(a, b, fails) ==
  IF fails \/ ~IsPolygonal(a) \/ ~IsPolygonal(b) THEN Throw
  ELSE IF Cover(a) \cap Cover(b) = {} THEN Null
  ELSE Ok(RegionGeometry(Cover(a) \cap Cover(b)))

\* Variant: the operands of the difference exchanged.
differenceSwapped(a, b, fails) ==
  IF fails \/ ~IsPolygonal(a) \/ ~IsPolygonal(b) THEN Throw
  ELSE IF Cover(b) \ Cover(a) = {} THEN Null
  ELSE Ok(RegionGeometry(Cover(b) \ Cover(a)))

\* turf.difference of two geometries: null when the second covers the first.
difference(a, b, fails) ==
  IF fails \/ ~IsPolygonal(a) \/ ~IsPolygonal(b) THEN Throw
  ELSE IF Cover(a) \ Cover(b) = {} THEN Null
  ELSE Ok(RegionGeometry(Cover(a) \ Cover(b)))

\* turf.union as the compiled service calls it, with two geometries: the
\* union as a Feature, or an exception (a build of turf whose union takes
\* one FeatureCollection rejects the call; the engine can fail as well).
union(a, b, fails) ==
  IF fails \/ ~(IsPolygonal(a) \/ a.type = "Feature") \/ ~IsPolygonal(b) THEN Throw
  ELSE Ok(Geometry("Feature", <<Cover(a) \cup Cover(b)>>))

----------------------------------------------------------------------------
(* FAAProxyService: the ArcGIS answer and its conversion to GeoJSON *)

Facilities == {NoValue, "KXYZ"}
GridIds == {"G1"}
\* MAX_AGL values; 0 also stands for an absent attribute (MAX_AGL || 0).
MaxAGLs == {400}

\* Polygon shapes: the zones 1..b around the centre and the zones a..MaxCell
\* reaching the outermost cell.
Intervals == {1..b : b \in 1..MaxCell} \cup {a..MaxCell : a \in 1..MaxCell}

\* The geometries the ArcGIS service can send: a polygon (rings), a point
\* (x, y), a polyline (paths), or no geometry at all.
EsriGeometries ==
  {[kind |-> "rings", cells |-> S] : S \in Intervals}
    \cup {[kind |-> "xy", cells |-> {}], [kind |-> "paths", cells |-> {}],
          [kind |-> "none", cells |-> {}]}

EsriFeatures ==
  [geometry : EsriGeometries,
   attributes : [FACILITY : Facilities, GRID_ID : GridIds, MAX_AGL : MaxAGLs]]

convertESRIToGeoJSON(esriGeometry) ==
  CASE esriGeometry.kind = "none" -> Geometry("Point", <<>>)
    [] esriGeometry.kind = "rings" -> Geometry("Polygon", <<esriGeometry.cells>>)
    [] esriGeometry.kind = "xy" -> Geometry("Point", <<>>)
    [] esriGeometry.kind = "paths" -> Geometry("LineString", <<>>)
    [] OTHER -> Geometry("Point", <<>>)

transformFeature(feature) ==
  LET geometry == convertESRIToGeoJSON(feature.geometry)
      maxAGL == feature.attributes.MAX_AGL
  IN Feature(
       [EmptyProps EXCEPT
          !.id = "faa-" \o feature.attributes.GRID_ID,
          !.category = "FAA",
          !.type = IF maxAGL = 0 THEN "NO_FLY" ELSE "AUTH_REQUIRED",
          !.authority = "Federal Aviation Administration",
          !.description = "FAA UAS Facility Map",
          !.confidenceLevel = "HIGH",
          !.maxAGL = maxAGL,
          !.facility = feature.attributes.FACILITY,
          !.gridId = feature.attributes.GRID_ID],
       geometry)

transformFAAResponse(faaData) ==
  FeatureCollection([i \in 1..Len(faaData) |-> transformFeature(faaData[i])])

\* Every answer the ArcGIS service can give, as a list of features.
RECURSIVE SeqsUpTo(_, _)
SeqsUpTo(S, n) ==
  IF n = 0 THEN {<<>>}
  ELSE LET shorter == SeqsUpTo(S, n - 1)
       IN shorter \cup {Append(q, x) : q \in {r \in shorter : Len(r) = n - 1}, x \in S}

FAAAnswers == SeqsUpTo(EsriFeatures, MaxRaw)

----------------------------------------------------------------------------
(* RestrictionService.mergeFAAFeaturesByFacility *)

Falsy(v) == v \in {NoValue, ""}

FacilityKey(f) ==
  IF ~Falsy(f.properties.facility) THEN f.properties.facility
  ELSE IF ~Falsy(f.properties.gridId) THEN f.properties.gridId
  ELSE "unknown"

\* The keys of `grouped`, in the order Object.entries lists them:
\* the order of first insertion.
RECURSIVE KeysInOrder(_, _)
KeysInOrder(features, seen) ==
  IF features = <<>> THEN <<>>
  ELSE LET key == FacilityKey(Head(features))
       IN IF key \in seen THEN KeysInOrder(Tail(features), seen)
          ELSE <<key>> \o KeysInOrder(Tail(features), seen \cup {key})

GroupOf(features, key) == SelectSeq(features, LAMBDA f : FacilityKey(f) = key)

RECURSIVE ConcatParts(_)
ConcatParts(fs) ==
  IF fs = <<>> THEN <<>> ELSE Head(fs).geometry.parts \o ConcatParts(Tail(fs))

\* turf.combine: one Multi* feature per geometry family present, the
\* families sorted by name; a MultiPolygon holds every member polygon.
combine(fs) ==
  LET lines == SelectSeq(fs, LAMBDA f : f.geometry.type \in {"LineString", "MultiLineString"})
      points == SelectSeq(fs, LAMBDA f : f.geometry.type \in {"Point", "MultiPoint"})
      polys == SelectSeq(fs, LAMBDA f : f.geometry.type \in {"Polygon", "MultiPolygon"})
  IN (IF lines = <<>> THEN <<>>
      ELSE <<Feature(EmptyProps, Geometry("MultiLineString", <<>>))>>)
     \o (IF points = <<>> THEN <<>>
         ELSE <<Feature(EmptyProps, Geometry("MultiPoint", <<>>))>>)
     \o (IF polys = <<>> THEN <<>>
         ELSE <<Feature(EmptyProps, Geometry("MultiPolygon", ConcatParts(polys)))>>)

Default(v, d) == IF Falsy(v) THEN d ELSE v

MergedProps(group, facility) ==
  [group[1].properties EXCEPT
     !.facility = facility,
     !.name = Default(group[1].properties.name, "Unnamed Airspace"),
     !.category = Default(group[1].properties.category, "Airspace"),
     !.type = Default(group[1].properties.type, "No-Fly"),
     !.source = Default(group[1].properties.source, "FAA"),
     !.notes = Default(group[1].properties.notes, "")]

\* The coordinates one combined feature contributes to the MultiPolygon
\* built from several combined features: a MultiPolygon is flattened into
\* one polygon whose first ring is the outer ring and whose other rings
\* are holes; any other geometry becomes the unit square.
FlattenedPart(geom) ==
  IF geom.type = "Polygon" THEN Cover(geom)
  ELSE IF geom.type = "MultiPolygon"
    THEN IF geom.parts = <<>> THEN {}
         ELSE Head(geom.parts) \ Cover(Geometry("MultiPolygon", Tail(geom.parts)))
  ELSE {UnitSquareCell}

\* Variant: GeometryCollection members are not filtered out.
simpleFeaturesUnfiltered(group) == group

\* group.filter(f => f.geometry.type !== 'GeometryCollection')
simpleFeaturesOf(group) ==
  SelectSeq(group, LAMBDA f : f.geometry.type # "GeometryCollection")

\* The features one facility group adds to mergedFeatures.
mergeGroup(facility, group, combineThrows) ==
  LET simpleFeatures == simpleFeaturesOf(group)
      combined == combine(simpleFeatures)
  IN IF Len(group) <= 1 THEN group
     ELSE IF Len(simpleFeatures) = 0 THEN <<>>
     ELSE IF Len(simpleFeatures) = 1
       THEN <<Feature(MergedProps(group, facility), simpleFeatures[1].geometry)>>
     ELSE IF combineThrows THEN group
     ELSE IF Len(combined) = 0 THEN group
     ELSE IF Len(combined) = 1
       THEN <<Feature(MergedProps(group, facility), combined[1].geometry)>>
     ELSE <<Feature(MergedProps(group, facility),
                    Geometry("MultiPolygon",
                             [i \in 1..Len(combined) |-> FlattenedPart(combined[i].geometry)]))>>

RECURSIVE mergeGroups(_, _, _)
mergeGroups(features, keys, throwKeys) ==
  IF keys = <<>> THEN <<>>
  ELSE mergeGroup(Head(keys), GroupOf(features, Head(keys)), Head(keys) \in throwKeys)
         \o mergeGroups(features, Tail(keys), throwKeys)

mergeFAAFeaturesByFacility(features, throwKeys) ==
  FeatureCollection(mergeGroups(features, KeysInOrder(features, {}), throwKeys))

----------------------------------------------------------------------------
(* The compiled RestrictionService (dist/.../restrictionService.js):       *)
(* combineSameAirportRestrictions and combineRestrictionsForFacility       *)

\* The values Math.random().toString(36).substring(2, 8) can give.
RandomSuffixes == {"000000", "zzzzzz"}

\* facilityName.replace(/\s+/g, '-').toLowerCase() on the facility names
\* of the model, none of which holds white space.
toLowerCase(name) ==
  CASE name = "KXYZ" -> "kxyz"
    [] OTHER -> name

\* The facilities of restrictionsByFacility in the order of insertion;
\* a record without a facility is skipped.
RECURSIVE FacilitiesInOrder(_, _)
FacilitiesInOrder(features, seen) ==
  IF features = <<>> THEN <<>>
  ELSE LET facility == Head(features).properties.facility
       IN IF Falsy(facility) \/ facility \in seen
            THEN FacilitiesInOrder(Tail(features), seen)
          ELSE <<facility>> \o FacilitiesInOrder(Tail(features), seen \cup {facility})

\* The positions in the input list of the records of one facility.
FacilityIndices(features, facility) ==
  SelectSeq([i \in 1..Len(features) |-> i],
            LAMBDA i : features[i].properties.facility = facility)

\* r.properties.maxAGL || 0
AGLOrZero(f) == IF f.properties.maxAGL <= 0 THEN 0 ELSE f.properties.maxAGL

\* Math.max(...restrictions.map(r => r.properties.maxAGL || 0))
MaxAGLOf(restrictions) ==
  CHOOSE m \in {AGLOrZero(restrictions[i]) : i \in DOMAIN restrictions} :
    \A i \in DOMAIN restrictions : AGLOrZero(restrictions[i]) <= m

\* restrictions.map(r => r.properties.gridId).filter(Boolean)
OriginalGridIds(restrictions) ==
  SelectSeq([i \in 1..Len(restrictions) |-> restrictions[i].properties.gridId],
            LAMBDA g : ~Falsy(g))

\* The union loop from member k on; idxs holds the members' positions in
\* the input list, throwIdx the positions at which turf.union throws.
RECURSIVE unionFrom(_, _, _, _, _)
unionFrom(combinedGeometry, features, idxs, k, throwIdx) ==
  IF k > Len(idxs) THEN combinedGeometry
  ELSE LET unionResult == union(combinedGeometry, features[idxs[k]].geometry,
                                idxs[k] \in throwIdx)
       IN IF unionResult.kind = "ok"
            THEN unionFrom(unionResult.geometry, features, idxs, k + 1, throwIdx)
          ELSE unionFrom(combinedGeometry, features, idxs, k + 1, throwIdx)

combineRestrictionsForFacility(features, idxs, facilityName, throwIdx, suffix) ==
  LET restrictions == [k \in 1..Len(idxs) |-> features[idxs[k]]]
      combinedGeometry == unionFrom(restrictions[1].geometry, features, idxs, 2, throwIdx)
  IN Feature(
       [restrictions[1].properties EXCEPT
          !.description = "FAA UAS Facility Map - Combined restrictions for "
                            \o facilityName \o " - Max AGL: "
                            \o ToString(MaxAGLOf(restrictions)) \o "ft",
          !.maxAGL = MaxAGLOf(restrictions),
          !.id = "faa-combined-" \o toLowerCase(facilityName) \o "-" \o suffix,
          !.combinedFrom = Len(restrictions),
          !.originalGridIds = OriginalGridIds(restrictions)],
       combinedGeometry)

RECURSIVE combineFacilities(_, _, _, _)
combineFacilities(features, facilities, throwIdx, suffix) ==
  IF facilities = <<>> THEN <<>>
  ELSE LET idxs == FacilityIndices(features, Head(facilities))
       IN (IF Len(idxs) = 1 THEN <<features[idxs[1]]>>
           ELSE <<combineRestrictionsForFacility(features, idxs, Head(facilities),
                                                 throwIdx, suffix)>>)
            \o combineFacilities(features, Tail(facilities), throwIdx, suffix)

combineSameAirportRestrictions(restrictions, throwIdx, suffix) ==
  IF Len(restrictions.features) = 0 THEN restrictions
  ELSE FeatureCollection(
         combineFacilities(restrictions.features,
                           FacilitiesInOrder(restrictions.features, {}),
                           throwIdx, suffix))

----------------------------------------------------------------------------
(* Results of a call: a value, or an exception *)

Returned(v) == [threw |-> FALSE, value |-> v, message |-> ""]
Threw(msg) == [threw |-> TRUE, value |-> FeatureCollection(<<>>), message |-> msg]

TypeErrorMessage == "Cannot read properties of undefined (reading 'geometry')"

----------------------------------------------------------------------------
(* spatial.ts *)

\* Variant: the longitude is not checked.
validateInputLatitudeOnly(input) ==
  IF input.lat < -90 \/ input.lat > 90
    THEN Threw("Invalid latitude. Must be between -90 and 90.")
  ELSE Returned(FeatureCollection(<<>>))

validateInput(input) ==
  IF input.lat < -90 \/ input.lat > 90
    THEN Threw("Invalid latitude. Must be between -90 and 90.")
  ELSE IF input.lng < -180 \/ input.lng > 180
    THEN Threw("Invalid longitude. Must be between -180 and 180.")
  ELSE Returned(FeatureCollection(<<>>))

generateSearchArea(lat, lng, radius) ==
  FeatureCollection(<<buffer(lat, lng, radius)>>)

\* The indices at which an operation on the list threw: those the engine
\* failed at, and those whose geometry is not polygonal.
ThrownAt(features, n, throwIdx) ==
  {i \in 1..n : i \in throwIdx \/ ~IsPolygonal(features[i].geometry)}

----------------------------------------------------------------------------
(* RestrictionService.clipRestrictionsToSearchArea *)

\* String.prototype.trim: the string without the white space at its ends.
RECURSIVE trimStart(_)
trimStart(s) ==
  IF Len(s) > 0 /\ SubSeq(s, 1, 1) = " " THEN trimStart(SubSeq(s, 2, Len(s))) ELSE s

RECURSIVE trimEnd(_)
trimEnd(s) ==
  IF Len(s) > 0 /\ SubSeq(s, Len(s), Len(s)) = " "
    THEN trimEnd(SubSeq(s, 1, Len(s) - 1))
  ELSE s

trim(s) == trimEnd(trimStart(s))

\* Variant: the annotation replaces the notes.
ClippedNotesOverwritten(notes) == "Clipped to search area"

\* `${notes || ''} ${notes ? '| ' : ''}Clipped to search area`.trim()
ClippedNotes(notes) ==
  trim((IF Falsy(notes) THEN "" ELSE notes) \o " "
         \o (IF Falsy(notes) THEN "" ELSE "| ") \o "Clipped to search area")

\* Variant: the loop writes the annotation into the restriction it reads.
restrictionsAfterClipAnnotated(restrictions) ==
  FeatureCollection([i \in 1..Len(restrictions.features) |->
    Feature([restrictions.features[i].properties EXCEPT
               !.notes = ClippedNotes(restrictions.features[i].properties.notes)],
            restrictions.features[i].geometry)])

\* The list handed to clipRestrictionsToSearchArea, as the call leaves it:
\* the loop reads each restriction and assigns to none.
restrictionsAfterClip(restrictions) == restrictions

\* Variant: the clipped record keeps the restriction's own geometry.
clipOneUnclipped(restriction, searchAreaGeometry, intersectThrows) ==
  LET intersection == intersect(searchAreaGeometry, restriction.geometry, intersectThrows)
  IN CASE intersection.kind = "throw" -> <<restriction>>
       [] intersection.kind = "null" -> <<>>
       [] OTHER ->
            <<Feature([restriction.properties EXCEPT
                         !.notes = ClippedNotes(restriction.properties.notes)],
                      restriction.geometry)>>

\* Variant: a restriction that does not intersect the search area is kept.
clipOneKeepsDisjoint(restriction, searchAreaGeometry, intersectThrows) ==
  LET intersection == intersect(searchAreaGeometry, restriction.geometry, intersectThrows)
  IN CASE intersection.kind = "throw" -> <<restriction>>
       [] intersection.kind = "null" -> <<restriction>>
       [] OTHER ->
            <<Feature([restriction.properties EXCEPT
                         !.notes = ClippedNotes(restriction.properties.notes)],
                      intersection.geometry)>>

\* Variant: a restriction whose intersect threw is dropped.
clipOneDropsThrown(restriction, searchAreaGeometry, intersectThrows) ==
  LET intersection == intersect(searchAreaGeometry, restriction.geometry, intersectThrows)
  IN CASE intersection.kind = "throw" -> <<>>
       [] intersection.kind = "null" -> <<>>
       [] OTHER ->
            <<Feature([restriction.properties EXCEPT
                         !.notes = ClippedNotes(restriction.properties.notes)],
                      intersection.geometry)>>

\* What one restriction adds to clippedFeatures.
clipOne(restriction, searchAreaGeometry, intersectThrows) ==
  LET intersection == intersect(searchAreaGeometry, restriction.geometry, intersectThrows)
  IN CASE intersection.kind = "throw" -> <<restriction>>
       [] intersection.kind = "null" -> <<>>
       [] OTHER ->
            <<Feature([restriction.properties EXCEPT
                         !.notes = ClippedNotes(restriction.properties.notes)],
                      intersection.geometry)>>

RECURSIVE clipFrom(_, _, _, _)
clipFrom(features, i, searchAreaGeometry, throwIdx) ==
  IF i > Len(features) THEN <<>>
  ELSE clipOne(features[i], searchAreaGeometry, i \in throwIdx)
         \o clipFrom(features, i + 1, searchAreaGeometry, throwIdx)

clipRestrictionsToSearchArea(restrictions, searchArea, throwIdx) ==
  IF Len(restrictions.features) = 0 THEN Returned(restrictions)
  ELSE IF searchArea.features[1] = UndefinedFeature THEN Threw(TypeErrorMessage)
  ELSE Returned(FeatureCollection(
         clipFrom(restrictions.features, 1, searchArea.features[1].geometry, throwIdx)))

----------------------------------------------------------------------------
(* RestrictionService.calculateAllowedAreas *)

AllowedFeature(geom, description) ==
  Feature([EmptyProps EXCEPT
             !.id = "allowed-area",
             !.category = "FAA",
             !.type = "NO_FLY",
             !.authority = "System",
             !.description = description,
             !.confidenceLevel = "HIGH"],
          geom)

\* Variant: the result of a difference is not stored in currentAllowedArea.
RECURSIVE subtractFromKeepsArea(_, _, _, _)
subtractFromKeepsArea(currentAllowedArea, restrictions, i, throwIdx) ==
  IF i > Len(restrictions)
    THEN [covered |-> FALSE, geometry |-> currentAllowedArea, calls |-> i - 1]
  ELSE LET diff == difference(currentAllowedArea, restrictions[i].geometry, i \in throwIdx)
       IN IF diff.kind = "null"
            THEN [covered |-> TRUE, geometry |-> currentAllowedArea, calls |-> i]
          ELSE subtractFromKeepsArea(currentAllowedArea, restrictions, i + 1, throwIdx)

\* Variant: a null difference does not end the loop.
RECURSIVE subtractFromIgnoresNull(_, _, _, _)
subtractFromIgnoresNull(currentAllowedArea, restrictions, i, throwIdx) ==
  IF i > Len(restrictions)
    THEN [covered |-> FALSE, geometry |-> currentAllowedArea, calls |-> i - 1]
  ELSE LET diff == difference(currentAllowedArea, restrictions[i].geometry, i \in throwIdx)
       IN IF diff.kind = "ok"
            THEN subtractFromIgnoresNull(diff.geometry, restrictions, i + 1, throwIdx)
          ELSE subtractFromIgnoresNull(currentAllowedArea, restrictions, i + 1, throwIdx)

\* Variant: a difference that throws ends the loop.
RECURSIVE subtractFromStopsOnThrow(_, _, _, _)
subtractFromStopsOnThrow(currentAllowedArea, restrictions, i, throwIdx) ==
  IF i > Len(restrictions)
    THEN [covered |-> FALSE, geometry |-> currentAllowedArea, calls |-> i - 1]
  ELSE LET diff == difference(currentAllowedArea, restrictions[i].geometry, i \in throwIdx)
       IN CASE diff.kind = "throw" ->
                 [covered |-> FALSE, geometry |-> currentAllowedArea, calls |-> i]
            [] diff.kind = "null" ->
                 [covered |-> TRUE, geometry |-> currentAllowedArea, calls |-> i]
            [] OTHER -> subtractFromStopsOnThrow(diff.geometry, restrictions, i + 1, throwIdx)

\* The subtraction loop from restriction i on.  covered: a difference was
\* null and the loop returned; calls: how many differences were attempted.
RECURSIVE subtractFrom(_, _, _, _)
subtractFrom(currentAllowedArea, restrictions, i, throwIdx) ==
  IF i > Len(restrictions)
    THEN [covered |-> FALSE, geometry |-> currentAllowedArea, calls |-> i - 1]
  ELSE LET diff == difference(currentAllowedArea, restrictions[i].geometry, i \in throwIdx)
       IN CASE diff.kind = "throw" ->
                 subtractFrom(currentAllowedArea, restrictions, i + 1, throwIdx)
            [] diff.kind = "null" ->
                 [covered |-> TRUE, geometry |-> currentAllowedArea, calls |-> i]
            [] OTHER -> subtractFrom(diff.geometry, restrictions, i + 1, throwIdx)

\* Variant: an empty restriction list gives an empty allowed area.
calculateAllowedAreasEmptyOnNone(searchArea, restrictions, throwIdx) ==
  IF Len(restrictions) = 0 \/ searchArea.features[1] = UndefinedFeature
    THEN [result |-> Returned(FeatureCollection(<<>>)), calls |-> 0]
  ELSE LET loop == subtractFrom(searchArea.features[1].geometry, restrictions, 1, throwIdx)
       IN IF loop.covered
            THEN [result |-> Returned(FeatureCollection(<<>>)), calls |-> loop.calls]
          ELSE [result |-> Returned(FeatureCollection(
                  <<AllowedFeature(loop.geometry,
                                   "Allowed flight area after applying all restrictions")>>)),
                calls |-> loop.calls]

\* Variant: an exception of turf.difference is not caught.
calculateAllowedAreasUnguarded(searchArea, restrictions, throwIdx) ==
  IF Len(restrictions) = 0
    THEN IF searchArea.features[1] = UndefinedFeature
           THEN [result |-> Threw(TypeErrorMessage), calls |-> 0]
         ELSE [result |-> Returned(FeatureCollection(
                 <<AllowedFeature(searchArea.features[1].geometry,
                                  "Entire search area is allowed (no restrictions)")>>)),
               calls |-> 0]
  ELSE IF searchArea.features[1] = UndefinedFeature
    THEN [result |-> Returned(FeatureCollection(<<>>)), calls |-> 0]
  ELSE LET loop == subtractFrom(searchArea.features[1].geometry, restrictions, 1, throwIdx)
       IN IF ThrownAt(restrictions, loop.calls, throwIdx) # {}
            THEN [result |-> Threw("Failed to subtract restriction"), calls |-> loop.calls]
          ELSE IF loop.covered
            THEN [result |-> Returned(FeatureCollection(<<>>)), calls |-> loop.calls]
          ELSE [result |-> Returned(FeatureCollection(
                  <<AllowedFeature(loop.geometry,
                                   "Allowed flight area after applying all restrictions")>>)),
                calls |-> loop.calls]

\* Variant: the allowed feature is returned after the search-area feature.
calculateAllowedAreasWithSearchFeature(searchArea, restrictions, throwIdx) ==
  IF Len(restrictions) = 0
    THEN IF searchArea.features[1] = UndefinedFeature
           THEN [result |-> Threw(TypeErrorMessage), calls |-> 0]
         ELSE [result |-> Returned(FeatureCollection(
                 <<AllowedFeature(searchArea.features[1].geometry,
                                  "Entire search area is allowed (no restrictions)")>>)),
               calls |-> 0]
  ELSE IF searchArea.features[1] = UndefinedFeature
    THEN [result |-> Returned(FeatureCollection(<<>>)), calls |-> 0]
  ELSE LET loop == subtractFrom(searchArea.features[1].geometry, restrictions, 1, throwIdx)
       IN IF loop.covered
            THEN [result |-> Returned(FeatureCollection(<<>>)), calls |-> loop.calls]
          ELSE [result |-> Returned(FeatureCollection(
                  <<searchArea.features[1],
                    AllowedFeature(loop.geometry,
                                   "Allowed flight area after applying all restrictions")>>)),
                calls |-> loop.calls]

\* Returns the call's result and the number of differences it attempted.
calculateAllowedAreas(searchArea, restrictions, throwIdx) ==
  IF Len(restrictions) = 0
    THEN IF searchArea.features[1] = UndefinedFeature
           THEN [result |-> Threw(TypeErrorMessage), calls |-> 0]
         ELSE [result |-> Returned(FeatureCollection(
                 <<AllowedFeature(searchArea.features[1].geometry,
                                  "Entire search area is allowed (no restrictions)")>>)),
               calls |-> 0]
  ELSE IF searchArea.features[1] = UndefinedFeature
    THEN [result |-> Returned(FeatureCollection(<<>>)), calls |-> 0]
  ELSE LET loop == subtractFrom(searchArea.features[1].geometry, restrictions, 1, throwIdx)
       IN IF loop.covered
            THEN [result |-> Returned(FeatureCollection(<<>>)), calls |-> loop.calls]
          ELSE [result |-> Returned(FeatureCollection(
                  <<AllowedFeature(loop.geometry,
                                   "Allowed flight area after applying all restrictions")>>)),
                calls |-> loop.calls]

----------------------------------------------------------------------------
(* The earlier RestrictionService (services/restrictionService.ts) *)

\* Its subtraction loop works on features; a null difference is logged and
\* the loop goes on with allowedArea unchanged.
RECURSIVE legacySubtractFrom(_, _, _, _)
legacySubtractFrom(allowedArea, restrictions, i, throwIdx) ==
  IF i > Len(restrictions) THEN [feature |-> allowedArea, calls |-> i - 1]
  ELSE LET diff == difference(allowedArea.geometry, restrictions[i].geometry, i \in throwIdx)
       IN IF diff.kind = "ok"
            THEN legacySubtractFrom(Feature(allowedArea.properties, diff.geometry),
                                    restrictions, i + 1, throwIdx)
          ELSE legacySubtractFrom(allowedArea, restrictions, i + 1, throwIdx)

legacyCalculateAllowedAreas(searchArea, restrictions, throwIdx) ==
  IF searchArea.features[1] = UndefinedFeature
    THEN [result |-> Returned(FeatureCollection(<<>>)), calls |-> 0]
  ELSE LET loop == legacySubtractFrom(searchArea.features[1], restrictions, 1, throwIdx)
       IN [result |-> Returned(FeatureCollection(<<loop.feature>>)), calls |-> loop.calls]

----------------------------------------------------------------------------
(* RestrictionController.getRestrictions: the status of a failed request *)

includes(s, t) ==
  \E i \in 1..(Len(s) - Len(t) + 1) : SubSeq(s, i, i + Len(t) - 1) = t

errorStatus(message) ==
  IF includes(message, "Invalid") \/ includes(message, "Invalid radius") THEN 400
  ELSE 500

\* The message getRestrictions rejects with: the earlier service wraps
\* every error, the current one lets it through.
rejectionMessage(service, message) ==
  IF service = "legacy" THEN "Failed to get restrictions: Error: " \o message
  ELSE message

----------------------------------------------------------------------------
(* One request through the controller and the service *)

VARIABLES svc, input, pc, searchArea, fetchIssued, faaFailed, raw, merged,
          airspace, allowed, diffCalls, response, error, httpStatus,
          combineThrew, intersectThrew, differenceThrew, unionThrew,
          calls, frames, locationData, selectedRadius, restrictionsState, fetches

vars == <<svc, input, pc, searchArea, fetchIssued, faaFailed, raw, merged,
          airspace, allowed, diffCalls, response, error, httpStatus,
          combineThrew, intersectThrew, differenceThrew, unionThrew,
          calls, frames, locationData, selectedRadius, restrictionsState, fetches>>

\* The state of one request followed step by step.
requestVars == <<svc, input, pc, searchArea, fetchIssued, faaFailed, raw, merged,
                 airspace, allowed, diffCalls, response, error, httpStatus,
                 combineThrew, intersectThrew, differenceThrew, unionThrew>>

\* What a request through the current or the earlier service never touches.
otherVars == <<unionThrew, calls, frames>>

\* The state of the page: its three useState cells and the calls of
\* fetchRestrictions made so far.
frontendVars == <<locationData, selectedRadius, restrictionsState, fetches>>

NoCollection == [type |-> NoValue, features |-> <<>>]

NoResponse ==
  [searchArea |-> NoCollection, airspaceRestrictions |-> NoCollection,
   localRestrictions |-> NoCollection, allowedAreas |-> NoCollection]

\* The calls of getRestrictions in progress on one RestrictionService.
Callers == {1, 2}

NoRequest == [lat |-> 0, lng |-> 0, radius |-> 0]

\* The local constants of one call: lat, lng, radius and searchArea.
NoFrame == [lat |-> 0, lng |-> 0, radius |-> 0, searchArea |-> NoCollection]

NoAnswer == [failed |-> FALSE, features |-> <<>>]

NoThrows == [combine |-> {}, intersect |-> {}, difference |-> {}]

\* A call not yet made, for the request body `request`.
NewCall(request) ==
  [pc |-> "start", request |-> request, sent |-> NoRequest, overlapped |-> FALSE,
   answer |-> NoAnswer, throws |-> NoThrows, response |-> NoResponse, error |-> ""]

NoCalls == [c \in Callers |-> NewCall(NoRequest)]

NoFrames == [c \in Callers |-> NoFrame]

\* The body of a POST /api/restrictions request.
RequestBody(lat, lng, radius) == [lat |-> lat, lng |-> lng, radius |-> radius]
NoBody == RequestBody(0, 0, 0)

\* useState(null) of locationData.
NoLocation ==
  [type |-> NoValue, coordinates |-> [latitude |-> 0, longitude |-> 0]]

\* What the restrictions state holds: the four layers, and the request the
\* layers answer (the cells of a layer are relative to its centre).
Restrictions(query, layers) ==
  [query |-> query, searchArea |-> layers[1], airspaceRestrictions |-> layers[2],
   localRestrictions |-> layers[3], allowedAreas |-> layers[4]]

\* useState(null) of restrictions, and setRestrictions(null).
NullRestrictions ==
  Restrictions(NoBody, <<NoCollection, NoCollection, NoCollection, NoCollection>>)

\* The page before the first event.
FrontendIdle ==
  /\ locationData = NoLocation
  /\ selectedRadius = 1
  /\ restrictionsState = NullRestrictions
  /\ fetches = <<>>

Init ==
  /\ svc \in Services
  /\ \E c \in Centers, r \in Radii : input = [lat |-> c.lat, lng |-> c.lng, radius |-> r]
  /\ pc = "start"
  /\ searchArea = NoCollection
  /\ fetchIssued = FALSE
  /\ faaFailed = FALSE
  /\ raw = NoCollection
  /\ merged = NoCollection
  /\ airspace = NoCollection
  /\ allowed = NoCollection
  /\ diffCalls = 0
  /\ response = NoResponse
  /\ error = ""
  /\ httpStatus = 0
  /\ combineThrew = {}
  /\ intersectThrew = {}
  /\ differenceThrew = {}
  /\ unionThrew = {}
  /\ calls = NoCalls
  /\ frames = NoFrames
  /\ FrontendIdle

\* getRestrictions up to its await: validateInput, generateSearchArea and
\* the request to the FAA service; a validation error goes to the
\* controller's catch.
Begin ==
  /\ pc = "start"
  /\ LET v == validateInput(input)
     IN IF v.threw
          THEN /\ pc' = "rejected"
               /\ error' = rejectionMessage(svc, v.message)
               /\ httpStatus' = errorStatus(rejectionMessage(svc, v.message))
               /\ UNCHANGED <<searchArea, fetchIssued>>
        ELSE /\ searchArea' = generateSearchArea(input.lat, input.lng, input.radius)
             /\ fetchIssued' = TRUE
             /\ pc' = "awaitFAA"
             /\ UNCHANGED <<error, httpStatus>>
  /\ UNCHANGED <<svc, input, faaFailed, raw, merged, airspace, allowed, diffCalls,
                 response, combineThrew, intersectThrew, differenceThrew>>
  /\ UNCHANGED otherVars
  /\ UNCHANGED frontendVars

\* What follows the fetch: the current service merges and clips, the
\* earlier one passes the FAA features on as they are.
AfterFetch(features) ==
  /\ raw' = features
  /\ IF svc = "current"
       THEN pc' = "merge" /\ UNCHANGED airspace
     ELSE pc' = "calc" /\ airspace' = features
  /\ UNCHANGED <<svc, input, searchArea, fetchIssued, merged, allowed, diffCalls,
                 response, error, httpStatus, combineThrew, intersectThrew,
                 differenceThrew>>
  /\ UNCHANGED otherVars
  /\ UNCHANGED frontendVars

\* axios.get resolves: getFAARestrictions returns the transformed answer.
FAAResponds ==
  /\ pc = "awaitFAA"
  /\ \E faaData \in FAAAnswers :
       /\ faaFailed' = FALSE
       /\ AfterFetch(transformFAAResponse(faaData))

\* axios.get rejects or times out: getFAARestrictions catches and returns
\* an empty collection.
FAAFails ==
  /\ pc = "awaitFAA"
  /\ faaFailed' = TRUE
  /\ AfterFetch(FeatureCollection(<<>>))

\* The facility keys whose group reaches turf.combine.
CombinedKeys(features) ==
  {FacilityKey(features[i]) : i \in DOMAIN features}
    \cap {k \in {FacilityKey(features[i]) : i \in DOMAIN features} :
            Len(SelectSeq(GroupOf(features, k),
                          LAMBDA f : f.geometry.type # "GeometryCollection")) >= 2}

Merge ==
  /\ pc = "merge"
  /\ svc = "current"
  /\ \E throwKeys \in SUBSET CombinedKeys(raw.features) :
       /\ merged' = mergeFAAFeaturesByFacility(raw.features, throwKeys)
       /\ combineThrew' = throwKeys
  /\ pc' = "clip"
  /\ UNCHANGED <<svc, input, searchArea, fetchIssued, faaFailed, raw, airspace,
                 allowed, diffCalls, response, error, httpStatus, intersectThrew,
                 differenceThrew>>
  /\ UNCHANGED otherVars
  /\ UNCHANGED frontendVars

\* clipRestrictionsToSearchArea inside generateAirspaceRestrictions, whose
\* catch turns any exception into an empty collection.
Clip ==
  /\ pc = "clip"
  /\ \E throwIdx \in SUBSET (1..Len(merged.features)) :
       LET area == generateSearchArea(input.lat, input.lng, input.radius)
           clipped == clipRestrictionsToSearchArea(merged, area, throwIdx)
       IN IF clipped.threw
            THEN /\ airspace' = FeatureCollection(<<>>)
                 /\ intersectThrew' = {}
          ELSE /\ airspace' = clipped.value
               /\ intersectThrew' = ThrownAt(merged.features, Len(merged.features), throwIdx)
  /\ merged' = restrictionsAfterClip(merged)
  /\ pc' = "calc"
  /\ UNCHANGED <<svc, input, searchArea, fetchIssued, faaFailed, raw,
                 allowed, diffCalls, response, error, httpStatus, combineThrew,
                 differenceThrew>>
  /\ UNCHANGED otherVars
  /\ UNCHANGED frontendVars

\* calculateAllowedAreas and the return of getRestrictions; an exception
\* goes to the controller's catch.
Calc ==
  /\ pc = "calc"
  /\ \E throwIdx \in SUBSET (1..Len(airspace.features)) :
       LET c == IF svc = "current"
                  THEN calculateAllowedAreas(searchArea, airspace.features, throwIdx)
                ELSE legacyCalculateAllowedAreas(searchArea, airspace.features, throwIdx)
       IN /\ diffCalls' = c.calls
          /\ differenceThrew' = ThrownAt(airspace.features, c.calls, throwIdx)
          /\ IF c.result.threw
               THEN /\ pc' = "rejected"
                    /\ error' = rejectionMessage(svc, c.result.message)
                    /\ httpStatus' = errorStatus(rejectionMessage(svc, c.result.message))
                    /\ UNCHANGED <<allowed, response>>
             ELSE /\ pc' = "done"
                  /\ allowed' = c.result.value
                  /\ response' = [searchArea |-> searchArea,
                                  airspaceRestrictions |-> airspace,
                                  localRestrictions |-> FeatureCollection(<<>>),
                                  allowedAreas |-> c.result.value]
                  /\ httpStatus' = 200
                  /\ UNCHANGED error
  /\ UNCHANGED <<svc, input, searchArea, fetchIssued, faaFailed, raw, merged,
                 airspace, combineThrew, intersectThrew>>
  /\ UNCHANGED otherVars
  /\ UNCHANGED frontendVars

Next == Begin \/ FAAResponds \/ FAAFails \/ Merge \/ Clip \/ Calc

Spec == Init /\ [][Next]_vars

-----------------------------------------------------------------------------
(* clipRestrictionsToSearchArea called on its own, on records with notes *)

\* The most restrictions in a list handed to the clipping.
MaxClipped == 2

\* Notes of a RestrictionLayer: absent, empty, a text, a text after a
\* blank and a blank alone.
ClipNotes == {NoValue, "", "TFR", " TFR", " "}

ClipGeometries ==
  {Geometry("Polygon", <<{1}>>), Geometry("Polygon", <<{1, 2}>>),
   Geometry("Polygon", <<{2, 3}>>)}

ClipRecords ==
  {Feature([EmptyProps EXCEPT !.id = "r", !.facility = "KXYZ", !.maxAGL = 400,
                              !.name = "Tower", !.notes = notes], g) :
     notes \in ClipNotes, g \in ClipGeometries}

ClipInit ==
  /\ svc = "current"
  /\ input \in {[lat |-> 90, lng |-> 180, radius |-> r] : r \in {1, MaxRadius}}
  /\ pc = "clip"
  /\ searchArea = generateSearchArea(input.lat, input.lng, input.radius)
  /\ fetchIssued = TRUE
  /\ faaFailed = FALSE
  /\ raw = FeatureCollection(<<>>)
  /\ merged \in {FeatureCollection(features) : features \in SeqsUpTo(ClipRecords, MaxClipped)}
  /\ airspace = NoCollection
  /\ allowed = NoCollection
  /\ diffCalls = 0
  /\ response = NoResponse
  /\ error = ""
  /\ httpStatus = 0
  /\ combineThrew = {}
  /\ intersectThrew = {}
  /\ differenceThrew = {}
  /\ unionThrew = {}
  /\ calls = NoCalls
  /\ frames = NoFrames
  /\ FrontendIdle

ClipNext == Clip \/ Calc

ClipSpec == ClipInit /\ [][ClipNext]_vars

----------------------------------------------------------------------------
(* The facility merge called on its own, on any list of records *)

MaxGroup == 3

MergeServices == {"current", "compiled"}

\* maxAGL values of the records given to the merge.
MergeMaxAGLs == {400, 1000}

\* Geometries of every kind of GeoJSONGeometry: two overlapping polygons, a
\* point and a GeometryCollection holding a polygon.
MergeGeometries ==
  {Geometry("Polygon", <<{1, 2}>>), Geometry("Polygon", <<{2, 3}>>),
   Geometry("Point", <<>>), Geometry("GeometryCollection", <<{3}>>)}

\* Records as transformFAAResponse builds them, with any geometry.
MergeRecords ==
  {[transformFeature([geometry |-> [kind |-> "none", cells |-> {}],
                      attributes |-> [FACILITY |-> f, GRID_ID |-> gid, MAX_AGL |-> a]])
      EXCEPT !.geometry = g] :
     f \in Facilities, gid \in GridIds, a \in MergeMaxAGLs, g \in MergeGeometries}

MergeInputs == SeqsUpTo(MergeRecords, MaxGroup)

MergeInit ==
  /\ svc \in MergeServices
  /\ input = [lat |-> 90, lng |-> 180, radius |-> 1]
  /\ pc = "merge"
  /\ searchArea = NoCollection
  /\ fetchIssued = FALSE
  /\ faaFailed = FALSE
  /\ raw \in {FeatureCollection(features) : features \in MergeInputs}
  /\ merged = NoCollection
  /\ airspace = NoCollection
  /\ allowed = NoCollection
  /\ diffCalls = 0
  /\ response = NoResponse
  /\ error = ""
  /\ httpStatus = 0
  /\ combineThrew = {}
  /\ intersectThrew = {}
  /\ differenceThrew = {}
  /\ unionThrew = {}
  /\ calls = NoCalls
  /\ frames = NoFrames
  /\ FrontendIdle

\* The positions of the input list whose record is handed to turf.union:
\* every member but the first of a facility with several records.
UnionIndices(features) ==
  {i \in DOMAIN features :
     /\ ~Falsy(features[i].properties.facility)
     /\ \E j \in 1..(i - 1) :
          features[j].properties.facility = features[i].properties.facility}

\* combineSameAirportRestrictions of the compiled service.
Combine ==
  /\ pc = "merge"
  /\ svc = "compiled"
  /\ \E throwIdx \in SUBSET UnionIndices(raw.features), suffix \in RandomSuffixes :
       /\ merged' = combineSameAirportRestrictions(raw, throwIdx, suffix)
       /\ unionThrew' =
            {i \in UnionIndices(raw.features) :
               i \in throwIdx \/ ~IsPolygonal(raw.features[i].geometry)}
  /\ pc' = "merged"
  /\ UNCHANGED <<svc, input, searchArea, fetchIssued, faaFailed, raw, airspace,
                 allowed, diffCalls, response, error, httpStatus, combineThrew,
                 intersectThrew, differenceThrew, calls, frames>>
  /\ UNCHANGED frontendVars

MergeNext == Merge \/ Combine

MergeSpec == MergeInit /\ [][MergeNext]_vars

----------------------------------------------------------------------------
(* Concurrent calls of getRestrictions on one RestrictionService: each     *)
(* call runs to its await in one step and, when axios settles, to its      *)
(* return in another                                                       *)

\* Request bodies: two valid ones that differ in centre and radius, and
\* one with a latitude out of range.
ConcInputs ==
  {[lat |-> 90, lng |-> 180, radius |-> 1],
   [lat |-> -90, lng |-> -180, radius |-> MaxRadius],
   [lat |-> 91, lng |-> 180, radius |-> 1]}

\* Answers of the FAA service with at most one feature.
ConcAnswers == SeqsUpTo(EsriFeatures, 1)

\* Variant: the locals of every call are kept in one place, as fields of
\* the service instance would be.
FrameOfShared(c) == 1

\* Where the locals of call c live: every call of the async function has
\* its own lat, lng, radius and searchArea.
FrameOf(c) == c

CallResult(threw, resp, message) == [threw |-> threw, response |-> resp, message |-> message]

\* getRestrictions of the current service from the return of the fetch to
\* its own return: merge, clip, calculateAllowedAreas and the response.
afterFetch(lat, lng, radius, area, features, throws) ==
  LET mergedRestrictions == mergeFAAFeaturesByFacility(features, throws.combine)
      clipped == clipRestrictionsToSearchArea(mergedRestrictions,
                                              generateSearchArea(lat, lng, radius),
                                              throws.intersect)
      airspaceRestrictions == IF clipped.threw THEN FeatureCollection(<<>>)
                              ELSE clipped.value
      allowedAreas == calculateAllowedAreas(area, airspaceRestrictions.features,
                                            throws.difference).result
  IN IF allowedAreas.threw THEN CallResult(TRUE, NoResponse, allowedAreas.message)
     ELSE CallResult(FALSE,
                     [searchArea |-> area,
                      airspaceRestrictions |-> airspaceRestrictions,
                      localRestrictions |-> FeatureCollection(<<>>),
                      allowedAreas |-> allowedAreas.value],
                     "")

ConcInit ==
  /\ svc = "current"
  /\ input = NoRequest
  /\ pc = "idle"
  /\ searchArea = NoCollection
  /\ fetchIssued = FALSE
  /\ faaFailed = FALSE
  /\ raw = NoCollection
  /\ merged = NoCollection
  /\ airspace = NoCollection
  /\ allowed = NoCollection
  /\ diffCalls = 0
  /\ response = NoResponse
  /\ error = ""
  /\ httpStatus = 0
  /\ combineThrew = {}
  /\ intersectThrew = {}
  /\ differenceThrew = {}
  /\ unionThrew = {}
  /\ calls \in [Callers -> {NewCall(request) : request \in ConcInputs}]
  /\ frames = NoFrames
  /\ FrontendIdle

\* Call c up to its await: validateInput, the destructuring of lat, lng
\* and radius, generateSearchArea, and the request sent to the FAA service.
ConcBegin(c) ==
  /\ calls[c].pc = "start"
  /\ LET v == validateInput(calls[c].request)
         frame == [lat |-> calls[c].request.lat, lng |-> calls[c].request.lng,
                   radius |-> calls[c].request.radius,
                   searchArea |-> generateSearchArea(calls[c].request.lat,
                                                     calls[c].request.lng,
                                                     calls[c].request.radius)]
     IN IF v.threw
          THEN /\ calls' = [calls EXCEPT ![c].pc = "rejected", ![c].error = v.message]
               /\ UNCHANGED frames
        ELSE /\ frames' = [frames EXCEPT ![FrameOf(c)] = frame]
             /\ calls' = [calls EXCEPT
                            ![c].pc = "awaitFAA",
                            ![c].overlapped = \E d \in Callers \ {c} : calls[d].pc = "awaitFAA",
                            ![c].sent = [lat |-> frames'[FrameOf(c)].lat,
                                         lng |-> frames'[FrameOf(c)].lng,
                                         radius |-> frames'[FrameOf(c)].radius]]
  /\ UNCHANGED requestVars
  /\ UNCHANGED frontendVars

\* The features axios.get leaves getFAARestrictions with.
AnswerFeatures(answer) ==
  IF answer.failed THEN <<>> ELSE transformFAAResponse(answer.features).features

\* Call c from the settling of axios.get to its return.
ConcResume(c) ==
  /\ calls[c].pc = "awaitFAA"
  /\ \E answer \in {[failed |-> TRUE, features |-> <<>>]}
                     \cup {[failed |-> FALSE, features |-> a] : a \in ConcAnswers} :
       \E iThrow \in SUBSET (1..Len(answer.features)),
          dThrow \in SUBSET (1..Len(answer.features)) :
         LET local == frames[FrameOf(c)]
             throws == [combine |-> {}, intersect |-> iThrow, difference |-> dThrow]
             result == afterFetch(local.lat, local.lng, local.radius, local.searchArea,
                                  AnswerFeatures(answer), throws)
         IN calls' = [calls EXCEPT
                        ![c].pc = IF result.threw THEN "rejected" ELSE "done",
                        ![c].answer = answer,
                        ![c].throws = throws,
                        ![c].response = result.response,
                        ![c].error = result.message]
  /\ UNCHANGED frames
  /\ UNCHANGED requestVars
  /\ UNCHANGED frontendVars

ConcNext == (\E c \in Callers : ConcBegin(c)) \/ (\E c \in Callers : ConcResume(c))

ConcSpec == ConcInit /\ [][ConcNext]_vars

-----------------------------------------------------------------------------
(* The page: App and CheckRestrictions, whose handlers are the same *)

\* The most calls of fetchRestrictions followed.
MaxFetches == 2

\* What LocationInput and MapSelector hand to onLocationChange: always a
\* location with coordinates.
Locations ==
  {[type |-> "manual", coordinates |-> [latitude |-> 90, longitude |-> 180]],
   [type |-> "geolocation", coordinates |-> [latitude |-> -90, longitude |-> -180]]}

\* The first two options of RadiusSelector, in whole metres.
RadiusOptions == {30, 402}

EmptyRestrictions ==
  Restrictions(NoBody, <<FeatureCollection(<<>>), FeatureCollection(<<>>),
                         FeatureCollection(<<>>), FeatureCollection(<<>>)>>)

\* data.data of an ok response: the layers the server computed for the
\* request body.
ResponseData(body) ==
  Restrictions(body,
               <<FeatureCollection(<<Feature(EmptyProps, Geometry("Polygon", <<{1}>>))>>),
                 FeatureCollection(<<>>), FeatureCollection(<<>>),
                 FeatureCollection(<<AllowedFeature(
                   Geometry("Polygon", <<{1}>>),
                   "Entire search area is allowed (no restrictions)")>>)>>)

\* Variant: the catch leaves the restrictions as they are.
caughtKeepsState(current) == current

\* The catch of fetchRestrictions: setRestrictions of four empty layers.
caught(current) == EmptyRestrictions

\* A call of fetchRestrictions at its first await.
NewFetch(location, radius) ==
  [body |-> RequestBody(location.coordinates.latitude,
                        location.coordinates.longitude, radius),
   stage |-> "fetch", outcome |-> NoValue]

\* fetchRestrictions(radius, locationDataOverride) up to its first await;
\* it returns at once for a location without coordinates.
fetchRestrictions(radius, locationToUse) ==
  IF locationToUse = NoLocation THEN fetches
  ELSE Append(fetches, NewFetch(locationToUse, radius))

Settled(i, outcome) == [fetches EXCEPT ![i].stage = "done", ![i].outcome = outcome]

handleLocationChange(data) ==
  /\ Len(fetches) < MaxFetches
  /\ locationData' = data
  /\ restrictionsState' = NullRestrictions
  /\ fetches' = fetchRestrictions(selectedRadius, data)
  /\ UNCHANGED selectedRadius
  /\ UNCHANGED requestVars
  /\ UNCHANGED <<calls, frames>>

handleRadiusChange(newRadius) ==
  /\ Len(fetches) < MaxFetches
  /\ selectedRadius' = newRadius
  /\ fetches' = IF locationData # NoLocation
                  THEN fetchRestrictions(newRadius, locationData)
                ELSE fetches
  /\ UNCHANGED <<locationData, restrictionsState>>
  /\ UNCHANGED requestVars
  /\ UNCHANGED <<calls, frames>>

\* The awaited fetch resolves with a response: the timer is cleared; an ok
\* response goes on to response.json(), any other sets four empty layers.
FetchResolves(i) ==
  /\ i \in DOMAIN fetches
  /\ fetches[i].stage = "fetch"
  /\ \E ok \in BOOLEAN :
       IF ok
         THEN /\ fetches' = [fetches EXCEPT ![i].stage = "json"]
              /\ UNCHANGED restrictionsState
       ELSE /\ fetches' = Settled(i, "notOk")
            /\ restrictionsState' = EmptyRestrictions
  /\ UNCHANGED <<locationData, selectedRadius>>
  /\ UNCHANGED requestVars
  /\ UNCHANGED <<calls, frames>>

\* The awaited fetch rejects: the request failed.
FetchRejects(i) ==
  /\ i \in DOMAIN fetches
  /\ fetches[i].stage = "fetch"
  /\ fetches' = Settled(i, "error")
  /\ restrictionsState' = caught(restrictionsState)
  /\ UNCHANGED <<locationData, selectedRadius>>
  /\ UNCHANGED requestVars
  /\ UNCHANGED <<calls, frames>>

\* The 10 second timer fires before the fetch has settled:
\* controller.abort() rejects the fetch.
TimeoutAborts(i) ==
  /\ i \in DOMAIN fetches
  /\ fetches[i].stage = "fetch"
  /\ fetches' = Settled(i, "abort")
  /\ restrictionsState' = caught(restrictionsState)
  /\ UNCHANGED <<locationData, selectedRadius>>
  /\ UNCHANGED requestVars
  /\ UNCHANGED <<calls, frames>>

\* response.json() resolves: setRestrictions(data.data).
JsonResolves(i) ==
  /\ i \in DOMAIN fetches
  /\ fetches[i].stage = "json"
  /\ fetches' = Settled(i, "ok")
  /\ restrictionsState' = ResponseData(fetches[i].body)
  /\ UNCHANGED <<locationData, selectedRadius>>
  /\ UNCHANGED requestVars
  /\ UNCHANGED <<calls, frames>>

\* response.json() rejects: the body did not arrive or is not JSON.
JsonRejects(i) ==
  /\ i \in DOMAIN fetches
  /\ fetches[i].stage = "json"
  /\ fetches' = Settled(i, "bodyError")
  /\ restrictionsState' = caught(restrictionsState)
  /\ UNCHANGED <<locationData, selectedRadius>>
  /\ UNCHANGED requestVars
  /\ UNCHANGED <<calls, frames>>

FrontInit ==
  /\ svc = "current"
  /\ input = NoRequest
  /\ pc = "idle"
  /\ searchArea = NoCollection
  /\ fetchIssued = FALSE
  /\ faaFailed = FALSE
  /\ raw = NoCollection
  /\ merged = NoCollection
  /\ airspace = NoCollection
  /\ allowed = NoCollection
  /\ diffCalls = 0
  /\ response = NoResponse
  /\ error = ""
  /\ httpStatus = 0
  /\ combineThrew = {}
  /\ intersectThrew = {}
  /\ differenceThrew = {}
  /\ unionThrew = {}
  /\ calls = NoCalls
  /\ frames = NoFrames
  /\ FrontendIdle

FrontNext ==
  \/ \E data \in Locations : handleLocationChange(data)
  \/ \E newRadius \in RadiusOptions : handleRadiusChange(newRadius)
  \/ \E i \in 1..MaxFetches : FetchResolves(i)
  \/ \E i \in 1..MaxFetches : FetchRejects(i)
  \/ \E i \in 1..MaxFetches : TimeoutAborts(i)
  \/ \E i \in 1..MaxFetches : JsonResolves(i)
  \/ \E i \in 1..MaxFetches : JsonRejects(i)

FrontSpec == FrontInit /\ [][FrontNext]_vars

\* Every awaited promise settles: the timer rejects a fetch that is still
\* pending after 10 seconds, and the reading of a body ends with the body
\* or with an error.
FrontLiveSpec ==
  /\ FrontSpec
  /\ \A i \in 1..MaxFetches :
       /\ WF_vars(FetchResolves(i) \/ FetchRejects(i) \/ TimeoutAborts(i))
       /\ WF_vars(JsonResolves(i) \/ JsonRejects(i))

----------------------------------------------------------------------------
(* Vocabulary of the properties *)

RECURSIVE SumCard(_)
SumCard(parts) ==
  IF parts = <<>> THEN 0 ELSE Cardinality(Head(parts)) + SumCard(Tail(parts))

\* turf.area: the sum of the areas of the polygons of a geometry.
Area(g) == SumCard(g.parts)

\* The cells covered by the features of a collection.
CoverOf(fc) == UNION {Cover(fc.features[i].geometry) : i \in DOMAIN fc.features}

RECURSIVE SumArea(_)
SumArea(fs) == IF fs = <<>> THEN 0 ELSE Area(Head(fs).geometry) + SumArea(Tail(fs))

ValidCenter == input.lat >= -90 /\ input.lat <= 90 /\ input.lng >= -180 /\ input.lng <= 180
ValidRequest == ValidCenter /\ input.radius > 0

SearchGeometry == searchArea.features[1].geometry

\* C1: the allowed area returned by calculateAllowedAreas lies inside the
\* search area, whatever the restrictions and whatever each difference
\* did (a result, null, or an exception); so its area is at most the
\* search area's.
C1_AllowedWithinSearchArea ==
  pc = "done" =>
    /\ CoverOf(allowed) \subseteq Cover(SearchGeometry)
    /\ SumArea(allowed.features) <= Area(SearchGeometry)

C1_Witness ==
  /\ pc = "done"
  /\ svc = "current"
  /\ differenceThrew # {}
  /\ \E i \in DOMAIN airspace.features :
       ~(Cover(airspace.features[i].geometry) \subseteq Cover(SearchGeometry))
  /\ CoverOf(allowed) # {}
  /\ CoverOf(allowed) # Cover(SearchGeometry)

\* C2: when no difference fails, the allowed area of the current service
\* is the search area minus the union of the restrictions it was given,
\* and shares no cell with any restriction of the returned layer.
C2_AllowedIsSearchMinusRestrictions ==
  (pc = "done" /\ svc = "current" /\ differenceThrew = {}) =>
    /\ CoverOf(allowed) = Cover(SearchGeometry) \ CoverOf(airspace)
    /\ \A i \in DOMAIN response.airspaceRestrictions.features :
         CoverOf(response.allowedAreas)
           \cap Cover(response.airspaceRestrictions.features[i].geometry) = {}

C2_Witness ==
  /\ pc = "done"
  /\ svc = "current"
  /\ differenceThrew = {}
  /\ Len(airspace.features) = 2
  /\ CoverOf(allowed) # {}
  /\ CoverOf(allowed) # Cover(SearchGeometry)

\* C3: for a valid centre and radius and an empty restriction list, the
\* allowed area has exactly one feature, whose geometry is the geometry of
\* the search area.
C3_NoRestrictionsAllowsSearchArea ==
  (pc = "done" /\ ValidRequest /\ Len(airspace.features) = 0) =>
    /\ Len(allowed.features) = 1
    /\ allowed.features[1].geometry = SearchGeometry
    /\ allowed.features[1].geometry = buffer(input.lat, input.lng, input.radius).geometry

C3_Witness ==
  /\ pc = "done"
  /\ svc = "current"
  /\ ValidRequest
  /\ Len(raw.features) > 0
  /\ Len(airspace.features) = 0
  /\ Len(allowed.features) = 1

CoveredAt(i) ==
  /\ i \in 1..diffCalls
  /\ i \notin differenceThrew
  /\ Cover(SearchGeometry)
       \subseteq UNION {Cover(airspace.features[j].geometry) : j \in (1..i) \ differenceThrew}

\* C5: when the difference with some restriction is null, the allowed
\* area has zero features, no later restriction is processed, and the
\* request does not fail.
C5_FullCoverageGivesNoAllowedArea ==
  (pc \in {"done", "rejected"} /\ ValidRequest) =>
    \A i \in DOMAIN airspace.features :
      CoveredAt(i) => (pc = "done" /\ allowed.features = <<>> /\ diffCalls = i)

Orderings(n) == {f \in [1..n -> 1..n] : \A a, b \in 1..n : f[a] = f[b] => a = b}

Permuted(fs, f) == [i \in 1..Len(fs) |-> fs[f[i]]]

AllPolygonal(fs) == \A i \in DOMAIN fs : IsPolygonal(fs[i].geometry)

\* C6: when no difference fails, the current service computes the same
\* allowed area from every permutation of the restriction list, also when
\* some difference is null.
C6_OrderIndependent ==
  (pc = "done" /\ svc = "current" /\ differenceThrew = {} /\ AllPolygonal(airspace.features)) =>
    \A f \in Orderings(Len(airspace.features)) :
      LET other == calculateAllowedAreas(searchArea, Permuted(airspace.features, f), {}).result.value
      IN /\ Len(other.features) = Len(allowed.features)
         /\ CoverOf(other) = CoverOf(allowed)
         /\ SumArea(other.features) = SumArea(allowed.features)

C6_Witness ==
  /\ pc = "done"
  /\ svc = "current"
  /\ differenceThrew = {}
  /\ Len(airspace.features) = 2
  /\ AllPolygonal(airspace.features)
  /\ allowed.features = <<>>
  /\ diffCalls = 1
  /\ calculateAllowedAreas(searchArea, <<airspace.features[2], airspace.features[1]>>, {}).calls = 2

\* C7: a request with a valid centre and a radius <= 0 is rejected with an
\* invalid-radius error; no search area is built, no data is fetched and
\* no layers are returned.
C7_NonPositiveRadiusRejected ==
  (ValidCenter /\ input.radius <= 0 /\ pc # "start") =>
    /\ pc = "rejected"
    /\ includes(error, "Invalid radius")
    /\ searchArea = NoCollection
    /\ ~fetchIssued

\* C8: a request whose latitude is outside [-90, 90] or whose longitude is
\* outside [-180, 180] is rejected before a search area is generated and
\* before the FAA fetch is issued; values on the bounds are accepted.
C8_InvalidCoordinateRejectedFirst ==
  pc # "start" =>
    IF ValidCenter
      THEN fetchIssued /\ searchArea # NoCollection /\ ~includes(error, "Invalid")
    ELSE /\ pc = "rejected"
         /\ includes(error, "Invalid")
         /\ httpStatus = 400
         /\ searchArea = NoCollection
         /\ ~fetchIssued
         /\ raw = NoCollection

C8_Witness ==
  /\ pc = "rejected"
  /\ input.lat = 90
  /\ input.lng = 181
  /\ httpStatus = 400

IsFeatureCollection(fc) == fc.type = "FeatureCollection" /\ DOMAIN fc.features = 1..Len(fc.features)

\* C9: for a valid request getRestrictions never raises, whichever of the
\* combine, intersect and difference operations throw, and its response
\* holds the four layers, each a FeatureCollection.
C9_GeometryFailuresAbsorbed ==
  ValidRequest =>
    /\ pc # "rejected"
    /\ error = ""
    /\ pc = "done" =>
         /\ IsFeatureCollection(response.searchArea)
         /\ IsFeatureCollection(response.airspaceRestrictions)
         /\ IsFeatureCollection(response.localRestrictions)
         /\ IsFeatureCollection(response.allowedAreas)
         /\ httpStatus = 200

C9_Witness ==
  /\ svc = "current"
  /\ ValidRequest
  /\ pc = "done"
  /\ combineThrew # {}
  /\ \E i \in intersectThrew : IsPolygonal(merged.features[i].geometry)
  /\ \E i \in differenceThrew : IsPolygonal(airspace.features[i].geometry)

MergeReturned == pc \in {"clip", "merged"} /\ merged # NoCollection

KeysOf(features) == {FacilityKey(features[i]) : i \in DOMAIN features}

RecordsOfKey(features, key) == {i \in DOMAIN features : FacilityKey(features[i]) = key}

\* C11: the output of the facility merge holds exactly one record for each
\* facility key (facility, else gridId, else "unknown") of its input list.
C11_OneRecordPerFacilityKey ==
  MergeReturned =>
    \A key \in KeysOf(raw.features) :
      Cardinality(RecordsOfKey(merged.features, key)) = 1

\* The input list is n >= 2 copies of one record with a polygon.
IdenticalPolygons(features) ==
  /\ Len(features) >= 2
  /\ features[1].geometry.type = "Polygon"
  /\ \A i \in DOMAIN features : features[i] = features[1]

\* C12: when no combine or union fails, merging N >= 2 identical copies of
\* one polygon gives one record whose geometry is that polygon, with the
\* polygon's area.
C12_IdenticalCopiesMergeToOne ==
  (MergeReturned /\ IdenticalPolygons(raw.features)
     /\ combineThrew = {} /\ unionThrew = {}) =>
    /\ Len(merged.features) = 1
    /\ merged.features[1].geometry = raw.features[1].geometry
    /\ Area(merged.features[1].geometry) = Area(raw.features[1].geometry)

MaxOf(S) == CHOOSE m \in S : \A x \in S : x <= m

\* C13: a facility whose group of two or more records was merged into one
\* record carries the largest maxAGL of the group.
C13_MergedMaxAGLIsMaximum ==
  MergeReturned =>
    \A key \in KeysOf(raw.features) :
      (/\ Cardinality(RecordsOfKey(raw.features, key)) >= 2
       /\ Cardinality(RecordsOfKey(merged.features, key)) = 1) =>
        \A i \in RecordsOfKey(merged.features, key) :
          merged.features[i].properties.maxAGL
            = MaxOf({raw.features[j].properties.maxAGL : j \in RecordsOfKey(raw.features, key)})

\* Restriction i of the merged list does not intersect the search area:
\* its intersect returned null.
DisjointAt(i) ==
  /\ i \notin intersectThrew
  /\ Cover(merged.features[i].geometry) \cap Cover(SearchGeometry) = {}

\* C14: a merged restriction disjoint from the search area is not in the
\* clipped output, every record of the output intersects the search area
\* or is the record of an intersect that threw, and when the disjoint
\* restriction is the only one the allowed area is the search area.
C14_DisjointRestrictionExcluded ==
  (svc = "current" /\ pc \in {"calc", "done"} /\ ValidRequest) =>
    /\ Len(airspace.features)
         = Cardinality({i \in DOMAIN merged.features : ~DisjointAt(i)})
    /\ \A j \in DOMAIN airspace.features :
         \/ Cover(airspace.features[j].geometry) \cap Cover(SearchGeometry) # {}
         \/ \E i \in intersectThrew : merged.features[i] = airspace.features[j]
    /\ (pc = "done" /\ Len(merged.features) = 1 /\ DisjointAt(1)) =>
         /\ airspace.features = <<>>
         /\ Len(allowed.features) = 1
         /\ allowed.features[1].geometry = SearchGeometry

C14_Witness ==
  /\ svc = "current"
  /\ pc = "done"
  /\ ValidRequest
  /\ Len(merged.features) = 1
  /\ IsPolygonal(merged.features[1].geometry)
  /\ DisjointAt(1)
  /\ airspace.features = <<>>
  /\ Len(allowed.features) = 1

\* What getRestrictions returns for call c's request body, FAA answer and
\* geometry failures when it is the only call.
AloneResult(c) ==
  LET request == calls[c].request
      v == validateInput(request)
  IN IF v.threw THEN CallResult(TRUE, NoResponse, v.message)
     ELSE afterFetch(request.lat, request.lng, request.radius,
                     generateSearchArea(request.lat, request.lng, request.radius),
                     AnswerFeatures(calls[c].answer), calls[c].throws)

\* C15: whatever the interleaving of two calls at their await, each call
\* asks the FAA service about its own request and ends with the response,
\* or the error, it ends with when it is the only call.
C15_ConcurrentCallsIsolated ==
  \A c \in Callers :
    /\ calls[c].pc = "awaitFAA" =>
         calls[c].sent = [lat |-> calls[c].request.lat, lng |-> calls[c].request.lng,
                          radius |-> calls[c].request.radius]
    /\ calls[c].pc \in {"done", "rejected"} =>
         /\ (calls[c].pc = "rejected") = AloneResult(c).threw
         /\ calls[c].response = AloneResult(c).response
         /\ calls[c].error = AloneResult(c).message

C15_Witness ==
  /\ calls[1].pc = "done"
  /\ calls[2].pc = "done"
  /\ calls[1].overlapped
  /\ calls[1].request # calls[2].request
  /\ calls[1].response.searchArea # calls[2].response.searchArea
  /\ Len(calls[1].response.airspaceRestrictions.features) = 1
  /\ Len(calls[2].response.airspaceRestrictions.features) = 0
  /\ calls[2].answer.features # <<>>

\* C16: in every response the searchArea layer has exactly one feature
\* (a Feature, whenever the current service or a positive radius produced
\* it) and the allowedAreas layer has zero or one feature.
C16_LayerSizes ==
  pc = "done" =>
    /\ Len(response.searchArea.features) = 1
    /\ (svc = "current" \/ ValidRequest) => response.searchArea.features[1].type = "Feature"
    /\ Len(response.allowedAreas.features) \in {0, 1}
    /\ \A i \in DOMAIN response.allowedAreas.features :
         response.allowedAreas.features[i].type = "Feature"

C16_Witness ==
  /\ pc = "done"
  /\ svc = "current"
  /\ Len(response.airspaceRestrictions.features) = 2
  /\ Len(response.searchArea.features) = 1
  /\ Len(response.allowedAreas.features) = 1
  /\ differenceThrew = {}

\* What restriction i of the merged list must leave in the clipped output.
ExpectedClip(i) ==
  IF i \in intersectThrew THEN <<merged.features[i]>>
  ELSE IF DisjointAt(i) THEN <<>>
  ELSE <<Feature([merged.features[i].properties EXCEPT
                    !.notes = ClippedNotes(merged.features[i].properties.notes)],
                 RegionGeometry(Cover(merged.features[i].geometry)
                                  \cap Cover(SearchGeometry)))>>

RECURSIVE ExpectedClipsFrom(_)
ExpectedClipsFrom(i) ==
  IF i > Len(merged.features) THEN <<>> ELSE ExpectedClip(i) \o ExpectedClipsFrom(i + 1)

\* C17: the clipped output holds, in the order of the merged list, the
\* unchanged record of every restriction whose intersect threw and the
\* clipped record of every other restriction that meets the search area.
C17_ThrownIntersectKeepsOriginal ==
  (svc = "current" /\ pc \in {"calc", "done"} /\ ValidRequest) =>
    airspace.features = ExpectedClipsFrom(1)

C17_Witness ==
  /\ svc = "current"
  /\ pc = "calc"
  /\ ValidRequest
  /\ Len(merged.features) = 2
  /\ intersectThrew = {2}
  /\ IsPolygonal(merged.features[2].geometry)
  /\ Len(airspace.features) = 2
  /\ airspace.features[2] = merged.features[2]
  /\ airspace.features[1].geometry # merged.features[1].geometry
  /\ airspace.features[1].properties.notes = "Clipped to search area"

\* The list without the records at the positions of T.
Without(features, T) ==
  LET kept == SelectSeq([i \in 1..Len(features) |-> i], LAMBDA i : i \notin T)
  IN [k \in 1..Len(kept) |-> features[kept[k]]]

GeometriesOf(fc) == [i \in 1..Len(fc.features) |-> fc.features[i].geometry]

Emitted(features, record) == \E i \in DOMAIN features : features[i] = record

\* C19: when the combine of a facility group throws, or the union with one
\* of its members throws, every record of the group is in the output of
\* the merge as it was given.
C19_MergeFailureKeepsMembers ==
  MergeReturned =>
    \A j \in DOMAIN raw.features :
      (\/ FacilityKey(raw.features[j]) \in combineThrew
       \/ \E i \in unionThrew :
            raw.features[i].properties.facility = raw.features[j].properties.facility) =>
        Emitted(merged.features, raw.features[j])

\* C20: no record with a geometry other than Polygon or MultiPolygon is
\* given to intersect (the merged list) or to difference, or is in the
\* returned restrictions layer (the clipped list).
C20_OnlyPolygonsReachGeometryOps ==
  /\ pc \in {"clip", "calc", "done"} => AllPolygonal(merged.features)
  /\ pc \in {"calc", "done"} => AllPolygonal(airspace.features)

\* The members of a facility group that are left after the
\* GeometryCollection members are dropped.
Survivors(group) == SelectSeq(group, LAMBDA f : f.geometry.type # "GeometryCollection")

\* The facility keys whose group has two or more records and whose combine
\* did not throw.
MergedKeys == {key \in KeysOf(raw.features) :
                 Len(GroupOf(raw.features, key)) >= 2 /\ key \notin combineThrew}

IfAbsent(v, d) == IF v = NoValue \/ v = "" THEN d ELSE v

CollectionOnlyCells(group) ==
  UNION {Cover(group[i].geometry) :
           i \in {j \in DOMAIN group : group[j].geometry.type = "GeometryCollection"}}
    \ UNION {Cover(group[i].geometry) :
               i \in {j \in DOMAIN group : group[j].geometry.type # "GeometryCollection"}}

\* C22: for a group of two or more whose combine did not throw: no record
\* when every member is a GeometryCollection; one record with the geometry
\* of the only other member when there is exactly one; and never a cell
\* that only GeometryCollection members cover.
C22_GeometryCollectionsDropped ==
  (MergeReturned /\ svc = "current") =>
    \A key \in MergedKeys :
      LET group == GroupOf(raw.features, key)
          survivors == Survivors(group)
          records == RecordsOfKey(merged.features, key)
      IN /\ Len(survivors) = 0 => records = {}
         /\ Len(survivors) = 1 =>
              /\ Cardinality(records) = 1
              /\ \A i \in records : merged.features[i].geometry = survivors[1].geometry
         /\ \A i \in records :
              Cover(merged.features[i].geometry) \cap CollectionOnlyCells(group) = {}

C22_Witness ==
  /\ MergeReturned
  /\ svc = "current"
  /\ combineThrew = {}
  /\ Len(raw.features) = 3
  /\ KeysOf(raw.features) = {"KXYZ"}
  /\ raw.features[1].geometry.type = "GeometryCollection"
  /\ raw.features[2].geometry = Geometry("Polygon", <<{1, 2}>>)
  /\ raw.features[3].geometry.type = "GeometryCollection"
  /\ Len(merged.features) = 1
  /\ merged.features[1].geometry = Geometry("Polygon", <<{1, 2}>>)

\* The groups the service puts the records of the list in, by key.
GroupsOf(service, features) ==
  IF service = "compiled"
    THEN [key \in {features[i].properties.facility :
                     i \in {j \in DOMAIN features : ~Falsy(features[j].properties.facility)}}
            |-> FacilityIndices(features, key)]
  ELSE [key \in KeysOf(features)
          |-> SelectSeq([i \in 1..Len(features) |-> i],
                        LAMBDA i : FacilityKey(features[i]) = key)]

InGroup(groups, key, i) == \E k \in DOMAIN groups[key] : groups[key][k] = i

\* C23: every record of the list is in exactly one group, the group of its
\* key (facility, else gridId, else "unknown"), so that two records are in
\* one group exactly when their keys are equal.
C23_GroupedByKey ==
  pc = "merge" =>
    LET groups == GroupsOf(svc, raw.features)
    IN \A i \in DOMAIN raw.features :
         /\ FacilityKey(raw.features[i]) \in DOMAIN groups
         /\ \A key \in DOMAIN groups :
              InGroup(groups, key, i) <=> key = FacilityKey(raw.features[i])

\* The clipped records clipRestrictionsToSearchArea built: those of the
\* restrictions that intersect the search area and whose intersect did not
\* throw, with the restriction each was built from.
RECURSIVE ClippedPairsFrom(_, _)
ClippedPairsFrom(i, k) ==
  IF i > Len(merged.features) THEN {}
  ELSE IF i \in intersectThrew
    THEN ClippedPairsFrom(i + 1, k + 1)
  ELSE IF DisjointAt(i) THEN ClippedPairsFrom(i + 1, k)
  ELSE {[restriction |-> merged.features[i], clipped |-> airspace.features[k]]}
         \cup ClippedPairsFrom(i + 1, k + 1)

ClipReturned ==
  /\ pc \in {"calc", "done"}
  /\ svc = "current"
  /\ Len(airspace.features)
       = Cardinality({i \in DOMAIN merged.features :
                        i \in intersectThrew \/ ~DisjointAt(i)})

PropertiesButNotes(f) == [f.properties EXCEPT !.notes = NoValue]

HasNotes(f) == f.properties.notes # NoValue /\ f.properties.notes # ""

\* The clipped record has the intersection as geometry and every property
\* but notes as the restriction has it.
ClippedKeepsRecord(pair) ==
  /\ Cover(pair.clipped.geometry) = Cover(pair.restriction.geometry) \cap Cover(SearchGeometry)
  /\ PropertiesButNotes(pair.clipped) = PropertiesButNotes(pair.restriction)

C25_AllowedFeaturesWrapped ==
  pc = "done" =>
    \A i \in DOMAIN allowed.features :
      /\ allowed.features[i].properties.authority = "System"
      /\ allowed.features[i].properties.confidenceLevel = "HIGH"
      /\ allowed.features[i] # searchArea.features[1]

C27_MergeFabricatesNothing ==
  (MergeReturned /\ svc = "current") =>
    \A key \in KeysOf(raw.features) :
      \A i \in RecordsOfKey(merged.features, key) :
        Cover(merged.features[i].geometry)
          \subseteq UNION {Cover(raw.features[j].geometry) :
                             j \in RecordsOfKey(raw.features, key)}

\* C28: what a Polygon or MultiPolygon record of the input list covers is
\* covered by some record of the merge output.
C28_MergeLosesNothing ==
  MergeReturned =>
    \A j \in DOMAIN raw.features :
      IsPolygonal(raw.features[j].geometry) =>
        Cover(raw.features[j].geometry) \subseteq CoverOf(merged)

\* Every call of fetchRestrictions made so far has set the restrictions.
AllSettled == \A i \in DOMAIN fetches : fetches[i].stage = "done"

\* What the call sets the restrictions to, by the way it ended.
OutcomeOf(fetch) ==
  IF fetch.outcome = "ok" THEN ResponseData(fetch.body) ELSE EmptyRestrictions

\* C29: once every request made has completed, the restrictions are the
\* result of the request made last.
C29_LatestRequestWins ==
  (fetches # <<>> /\ AllSettled) =>
    restrictionsState = OutcomeOf(fetches[Len(fetches)])

\* Call i of fetchRestrictions sets the restrictions in this step.
Sets(i) ==
  /\ i \in DOMAIN fetches
  /\ fetches[i].stage # "done"
  /\ i \in DOMAIN fetches'
  /\ fetches'[i].stage = "done"

\* What a step that sets the restrictions for call i sets them to.
SetsOutcome(i) ==
  Sets(i) =>
    (/\ restrictionsState' = OutcomeOf(fetches'[i])
     /\ restrictionsState' # NullRestrictions
     /\ fetches'[i].outcome \in {"ok", "notOk", "error", "bodyError", "abort"})

LocationChangeResets ==
  (locationData' # locationData) => (restrictionsState' = NullRestrictions)

====
